---- MODULE Spec2Model ----
(***************************************************************************)
(* State-machine model of example_model_simple.py: the weekly script that  *)
(* loads or trains one model, fills NaNs, predicts on validation and       *)
(* tournament data, neutralizes the predictions to the riskiest features,  *)
(* computes validation metrics, selects the best column and writes its     *)
(* percentile rank as the final prediction.                                *)
(*                                                                         *)
(* A data frame is a function from column name to a sequence of values,    *)
(* all columns of one frame having the same length.  Feature values are    *)
(* in quarter units (0, 2, 4 stand for 0, 0.5, 1); NaN is a marker value.  *)
(* The helpers imported from utils (load_model, save_model, neutralize,    *)
(* get_biggest_change_features, validation_metrics) and the LightGBM model *)
(* are black boxes: their results are drawn from small sets.               *)
(***************************************************************************)
EXTENDS Integers, Sequences, FiniteSets, TLC

VARIABLES pc, error, printed, stored_model, model, models,
          training_data, validation_data, tournament_data, feature_cols,
          loop_todo, pred_cols, defined, all_feature_corrs,
          riskiest_features, validation_stats, best_model,
          tournament_file, other_data, other_corrs

vars == <<pc, error, printed, stored_model, model, models,
          training_data, validation_data, tournament_data, feature_cols,
          loop_todo, pred_cols, defined, all_feature_corrs,
          riskiest_features, validation_stats, best_model,
          tournament_file, other_data, other_corrs>>

(***************************************************************************)
(* Bounds of the model.                                                    *)
(***************************************************************************)
\* rows of the validation frame and of the tournament frame
MaxRows == 2
\* rows of a training frame in the correlation-matrix specification
MaxTrainRows == 3

\* prediction scores a model or the neutralizer can produce (abstract floats)
Scores == {0, 1}
\* per-column mean statistics validation_metrics can produce (abstract floats)
Means == {0, 1}
\* values of a training feature or target (quarter units)
TrainValues == {0, 4}
EraLabels == {"era1", "era2"}
FeatureSuffixes == {"a", "b"}

(***************************************************************************)
(* Constants of the script.                                                *)
(***************************************************************************)
EXAMPLE_PREDS_COL == "example_preds"
TARGET_COL == "target"
ERA_COL == "era"
model_name == "model_target"
\* fillna(0.5): 0.5 in quarter units
FillValue == 2
\* the marker of a missing value, what isna() tests for
NaN == -1
\* get_biggest_change_features(all_feature_corrs, 50)
RiskiestCount == 50

(***************************************************************************)
(* Sequences and frames.                                                   *)
(***************************************************************************)
Range(s) == {s[i] : i \in DOMAIN s}

Columns(df) == DOMAIN df

\* len(df): every frame carries the era column
NRows(df) == Len(df[ERA_COL])

\* df[name] = column : a new column is added, an existing one is replaced
SetColumn(df, name, column) ==
    [c \in Columns(df) \cup {name} |-> IF c = name THEN column ELSE df[c]]

\* c.startswith("feature_")
StartsWithFeature(c) == \E s \in FeatureSuffixes : c = "feature_" \o s

\* the order in which the feature columns appear in the parquet files
FeatureOrder == <<"feature_" \o "a", "feature_" \o "b">>

\* [c for c in training_data if c.startswith("feature_")]
FeatureCols(df) ==
    SelectSeq(FeatureOrder, LAMBDA c : c \in Columns(df) /\ StartsWithFeature(c))

\* f"preds_{model_name}"
PredColName(m) == "preds_" \o m

NeutralColNameSameAsSource(m) == "preds_" \o m
\* f"preds_{model_name}_neutral_riskiest_50"
NeutralColName(m) == "preds_" \o m \o "_neutral_riskiest_50"

\* DataFrame.isna() on one cell
IsNa(v) == v = NaN

\* Series.fillna(value): a new column
Fillna(column, value) ==
    [i \in DOMAIN column |-> IF IsNa(column[i]) THEN value ELSE column[i]]

\* df.loc[:, cols]: a new frame holding copies of the selected columns
LocColumns(df, cols) == [c \in Range(cols) |-> df[c]]

\* df.loc[df["data_type"] == "live", feature_cols].isna().sum().sum()
LiveNanCount(df, cols) ==
    Cardinality({<<c, i>> \in Range(cols) \X (1..NRows(df)) :
                    df["data_type"][i] = "live" /\ IsNa(df[c][i])})

(***************************************************************************)
(* Per-era feature/target correlation (line 100).                          *)
(***************************************************************************)
RECURSIVE SeqSum(_)
SeqSum(s) == IF s = <<>> THEN 0 ELSE Head(s) + SeqSum(Tail(s))

SeqProduct(x, y) == [i \in DOMAIN x |-> x[i] * y[i]]

RECURSIVE Gcd(_, _)
Gcd(a, b) == IF b = 0 THEN a ELSE Gcd(b, a % b)

Sign(v) == IF v > 0 THEN 1 ELSE IF v < 0 THEN -1 ELSE 0

\* the correlation that is not a number: fewer than two rows or a constant column
NanCorr == <<0, 0, 0>>

\* Series.corr (Pearson) of two equally long columns.  The value
\* cov / sqrt(var_x * var_y) is kept exactly as <<sign, num, den>> with
\* num/den the reduced fraction cov^2 / (var_x * var_y).
Pearson(x, y) ==
    LET n   == Len(x)
        cov == n * SeqSum(SeqProduct(x, y)) - SeqSum(x) * SeqSum(y)
        vx  == n * SeqSum(SeqProduct(x, x)) - SeqSum(x) * SeqSum(x)
        vy  == n * SeqSum(SeqProduct(y, y)) - SeqSum(y) * SeqSum(y)
        g   == Gcd(cov * cov, vx * vy)
    IN  IF vx * vy = 0 THEN NanCorr
        ELSE <<Sign(cov), (cov * cov) \div g, (vx * vy) \div g>>

RECURSIVE RowsWhere(_, _, _)
\* the values of a column on the rows whose key equals k, in row order
RowsWhere(column, keys, k) ==
    IF column = <<>> THEN <<>>
    ELSE (IF Head(keys) = k THEN <<Head(column)>> ELSE <<>>)
         \o RowsWhere(Tail(column), Tail(keys), k)

\* a grouping that hands every row to the lambda, whatever its key
GroupRowsWholeFrame(df, by, k) == [c \in Columns(df) |-> df[c]]
\* the sub-frame groupby hands to the lambda for the group of key k
GroupRows(df, by, k) == [c \in Columns(df) |-> RowsWhere(df[c], df[by], k)]

\* d[feature_cols].corrwith(d[TARGET_COL])
CorrWith(d, cols, target) == [f \in Range(cols) |-> Pearson(d[f], d[target])]

\* training_data.groupby(ERA_COL).apply(lambda d: d[feature_cols].corrwith(d[TARGET_COL])):
\* one row per era label that occurs in the frame
GroupbyApplyCorr(df, cols) ==
    [e \in Range(df[ERA_COL]) |-> CorrWith(GroupRows(df, ERA_COL, e), cols, TARGET_COL)]

(***************************************************************************)
(* Model selection (line 129) and percentile rank (lines 133-134).         *)
(***************************************************************************)
Reverse(s) == [i \in DOMAIN s |-> s[Len(s) + 1 - i]]

RECURSIVE InsertByValue(_, _, _)
\* insert index i into the sorted index list, after every index whose value is <= values[i]
InsertByValue(sorted, i, values) ==
    IF sorted = <<>> THEN <<i>>
    ELSE IF values[Head(sorted)] <= values[i]
         THEN <<Head(sorted)>> \o InsertByValue(Tail(sorted), i, values)
         ELSE <<i>> \o sorted

RECURSIVE ArgsortUpTo(_, _)
ArgsortUpTo(values, k) ==
    IF k = 0 THEN <<>> ELSE InsertByValue(ArgsortUpTo(values, k - 1), k, values)

\* numpy argsort on a short array (insertion sort): ascending, equal values in position order
Argsort(values) == ArgsortUpTo(values, Len(values))

\* pandas nargsort(values, ascending=False): reverse, argsort, map back, reverse
NargsortDescending(values) ==
    LET idx == Reverse([i \in DOMAIN values |-> i])
        pos == Argsort(Reverse(values))
    IN  Reverse([k \in DOMAIN values |-> idx[pos[k]]])

\* stats.sort_values(by="mean", ascending=False)
SortValuesByMeanDescending(stats) ==
    LET indexer == NargsortDescending([i \in DOMAIN stats |-> stats[i].mean])
    IN  [k \in DOMAIN stats |-> stats[indexer[k]]]

\* sort_values(by="mean").tail(1).index[0]: ascending, the last row taken
BestModelTail(stats) ==
    stats[Argsort([i \in DOMAIN stats |-> stats[i].mean])[Len(stats)]].name

\* validation_stats.sort_values(by="mean", ascending=False).head(1).index[0]
\* (defined on a table with at least one row; on an empty one index[0] raises)
BestModel(stats) == SortValuesByMeanDescending(stats)[1].name

\* the number of rows whose value is below v
CountBelow(column, v) == Cardinality({j \in DOMAIN column : column[j] < v})

\* the number of rows whose value equals v
CountEqual(column, v) == Cardinality({j \in DOMAIN column : column[j] = v})

\* Series.rank(method="first", pct=True)
RankPctOrdinal(column) ==
    [i \in DOMAIN column |->
        <<2 * (CountBelow(column, column[i])
               + Cardinality({j \in 1..i : column[j] = column[i]})),
          2 * Len(column)>>]

\* Series.rank(pct=True): the default method "average" gives tied values the mean
\* of the positions they span; the result rank / n is kept as <<2 * rank, 2 * n>>
RankPct(column) ==
    [i \in DOMAIN column |->
        <<2 * CountBelow(column, column[i]) + CountEqual(column, column[i]) + 1,
          2 * Len(column)>>]

(***************************************************************************)
(* The black boxes: the stored model, LightGBM and the helpers of utils.   *)
(***************************************************************************)
\* what load_model returns when no model is stored (a false value)
NoModel == [found |-> FALSE, expected |-> {}]

\* a fitted model; expected is model.booster_.feature_name()
FittedModel(features) == [found |-> TRUE, expected |-> features]

AllFeatureNames == {"feature_" \o s : s \in FeatureSuffixes}

\* model.predict(frame.loc[:, model_expected_features]): one score per row
PredictResults(df) == [1..NRows(df) -> Scores]

\* neutralize(df, columns, neutralizers, proportion, normalize, era_col): a new
\* column with one value per row of df; df itself is left as it was
NeutralizeResults(df, columns, neutralizers) == [1..NRows(df) -> Scores]

Orderings(S) == {p \in [1..Cardinality(S) -> S] : Range(p) = S}

Min(a, b) == IF a <= b THEN a ELSE b

\* get_biggest_change_features(corrs, n): the n features whose correlation
\* changes most between the two halves of the eras, in ranked order
BiggestChangeResults(corrs, features, n) ==
    {SubSeq(p, 1, Min(n, Cardinality(features))) : p \in Orderings(features)}

\* validation_metrics(validation_data, pred_cols, example_col, fast_mode=True):
\* a table keyed by prediction column, one row per column of pred_cols; the
\* rows come in no particular order, so every ordering of them is a result
ValidationMetricsResults(df, cols) ==
    {[i \in DOMAIN cols |-> [name |-> cols[order[i]], mean |-> means[i]]] :
        order \in Orderings(DOMAIN cols), means \in [DOMAIN cols -> Means]}

(***************************************************************************)
(* The script.                                                             *)
(***************************************************************************)
AppendPredColForgotten(cols, name) == cols
\* pred_cols.append(name)
AppendPredCol(cols, name) == Append(cols, name)

\* models.items(): the dict holds at most the one model the script names
ModelsItems(dict) == IF model_name \in DOMAIN dict THEN <<model_name>> ELSE <<>>

StageOrderRiskAfterNeutralize ==
    <<"load", "train", "nancheck", "predict", "corr", "neutralize", "risk",
      "metrics", "select", "rank", "done">>
\* the statements of the script in program order
StageOrder ==
    <<"load", "train", "nancheck", "predict", "corr", "risk", "neutralize",
      "metrics", "select", "rank", "done">>

\* the statement that follows stage s
After(s) == StageOrder[(CHOOSE i \in DOMAIN StageOrder : StageOrder[i] = s) + 1]

Crash(name) ==
    /\ pc' = "crashed"
    /\ error' = name

\* tournament_data.loc[:, feature_cols].fillna(0.5, inplace=True): .loc with a
\* column list builds a new frame, fillna fills that frame, and nothing keeps it
LocFillnaInplace(df, cols, value) ==
    LET copy   == LocColumns(df, cols)
        filled == [c \in Columns(copy) |-> Fillna(copy[c], value)]
    IN  df

\* lines 52-55: model = load_model(model_name); if not model: ...
LoadModel ==
    /\ pc = "load"
    /\ model' = stored_model
    /\ pc' = IF ~stored_model.found THEN After("load") ELSE After("train")
    /\ UNCHANGED <<error, printed, stored_model, models, training_data,
                   validation_data, tournament_data, feature_cols, loop_todo,
                   pred_cols, defined, all_feature_corrs, riskiest_features,
                   validation_stats, best_model, tournament_file, other_data,
                   other_corrs>>

\* lines 56-70: fit, save_model, models[model_name] = model
TrainModel ==
    /\ pc = "train"
    /\ model' = FittedModel(Range(feature_cols))
    /\ stored_model' = model'
    /\ models' = (model_name :> model') @@ models
    /\ printed' = printed \cup {"model not found, training new one"}
    /\ pc' = After("train")
    /\ UNCHANGED <<error, training_data, validation_data, tournament_data,
                   feature_cols, loop_todo, pred_cols, defined,
                   all_feature_corrs, riskiest_features, validation_stats,
                   best_model, tournament_file, other_data, other_corrs>>

\* lines 72-88: check for nans and fill nans; pred_cols = []; enter the loop
NanCheck ==
    /\ pc = "nancheck"
    /\ IF LiveNanCount(tournament_data, feature_cols) # 0
       THEN /\ printed' = printed \cup {"filling nans with 0.5"}
            /\ tournament_data' = LocFillnaInplace(tournament_data, feature_cols, FillValue)
       ELSE /\ printed' = printed \cup {"No nans in the features this week!"}
            /\ tournament_data' = tournament_data
    /\ pred_cols' = <<>>
    /\ loop_todo' = ModelsItems(models)
    /\ pc' = After("nancheck")
    /\ UNCHANGED <<error, stored_model, model, models, training_data,
                   validation_data, feature_cols, defined, all_feature_corrs,
                   riskiest_features, validation_stats, best_model,
                   tournament_file, other_data, other_corrs>>

\* lines 88-97: one iteration of the prediction loop
PredictIteration ==
    /\ pc = "predict"
    /\ loop_todo # <<>>
    /\ LET m        == Head(loop_todo)
           expected == models[m].expected
       IN  /\ printed' = IF expected # Range(feature_cols)
                         THEN printed \cup {"New features are available! " \o m}
                         ELSE printed
           /\ IF expected \subseteq Columns(validation_data)
                 /\ expected \subseteq Columns(tournament_data)
              THEN \E pv \in PredictResults(validation_data),
                      pt \in PredictResults(tournament_data) :
                      /\ validation_data' = SetColumn(validation_data, PredColName(m), pv)
                      /\ tournament_data' = SetColumn(tournament_data, PredColName(m), pt)
                      /\ pred_cols' = AppendPredCol(pred_cols, PredColName(m))
                      /\ loop_todo' = Tail(loop_todo)
                      /\ UNCHANGED <<pc, error>>
              ELSE /\ Crash("KeyError")
                   /\ UNCHANGED <<validation_data, tournament_data, pred_cols, loop_todo>>
    /\ UNCHANGED <<stored_model, model, models, training_data, feature_cols,
                   defined, all_feature_corrs, riskiest_features,
                   validation_stats, best_model, tournament_file, other_data,
                   other_corrs>>

\* line 88: the prediction loop is over
PredictLoopExit ==
    /\ pc = "predict"
    /\ loop_todo = <<>>
    /\ pc' = After("predict")
    /\ UNCHANGED <<error, printed, stored_model, model, models, training_data,
                   validation_data, tournament_data, feature_cols, loop_todo,
                   pred_cols, defined, all_feature_corrs, riskiest_features,
                   validation_stats, best_model, tournament_file, other_data,
                   other_corrs>>

\* line 100: the per-era correlation of each feature with the target
ComputeCorrs ==
    /\ pc = "corr"
    /\ all_feature_corrs' = GroupbyApplyCorr(training_data, feature_cols)
    /\ defined' = defined \cup {"all_feature_corrs"}
    /\ pc' = After("corr")
    /\ UNCHANGED <<error, printed, stored_model, model, models, training_data,
                   validation_data, tournament_data, feature_cols, loop_todo,
                   pred_cols, riskiest_features, validation_stats, best_model,
                   tournament_file, other_data, other_corrs>>

\* lines 103-106: the riskiest features; enter the neutralization loop
RiskiestFeatures ==
    /\ pc = "risk"
    /\ IF "all_feature_corrs" \notin defined
       THEN /\ Crash("NameError")
            /\ UNCHANGED <<riskiest_features, defined, loop_todo>>
       ELSE IF Cardinality(DOMAIN all_feature_corrs) < 2
       THEN /\ Crash("InsufficientErasError")
            /\ UNCHANGED <<riskiest_features, defined, loop_todo>>
       ELSE /\ riskiest_features' \in
                  BiggestChangeResults(all_feature_corrs, Range(feature_cols), RiskiestCount)
            /\ defined' = defined \cup {"riskiest_features"}
            /\ loop_todo' = ModelsItems(models)
            /\ pc' = After("risk")
            /\ UNCHANGED error
    /\ UNCHANGED <<printed, stored_model, model, models, training_data,
                   validation_data, tournament_data, feature_cols, pred_cols,
                   all_feature_corrs, validation_stats, best_model,
                   tournament_file, other_data, other_corrs>>

\* lines 106-121: one iteration of the neutralization loop
NeutralizeIteration ==
    /\ pc = "neutralize"
    /\ loop_todo # <<>>
    /\ LET m == Head(loop_todo)
       IN  IF "riskiest_features" \notin defined
           THEN /\ Crash("NameError")
                /\ UNCHANGED <<validation_data, tournament_data, pred_cols, loop_todo>>
           ELSE IF ~({PredColName(m)} \cup Range(riskiest_features)
                        \subseteq Columns(validation_data) \cap Columns(tournament_data))
           THEN /\ Crash("KeyError")
                /\ UNCHANGED <<validation_data, tournament_data, pred_cols, loop_todo>>
           ELSE \E nv \in NeutralizeResults(validation_data, <<PredColName(m)>>,
                                            riskiest_features),
                   nt \in NeutralizeResults(tournament_data, <<PredColName(m)>>,
                                            riskiest_features) :
                   /\ validation_data' = SetColumn(validation_data, NeutralColName(m), nv)
                   /\ tournament_data' = SetColumn(tournament_data, NeutralColName(m), nt)
                   /\ pred_cols' = AppendPredCol(pred_cols, NeutralColName(m))
                   /\ loop_todo' = Tail(loop_todo)
                   /\ UNCHANGED <<pc, error>>
    /\ UNCHANGED <<printed, stored_model, model, models, training_data,
                   feature_cols, defined, all_feature_corrs, riskiest_features,
                   validation_stats, best_model, tournament_file, other_data,
                   other_corrs>>

\* line 106: the neutralization loop is over
NeutralizeLoopExit ==
    /\ pc = "neutralize"
    /\ loop_todo = <<>>
    /\ pc' = After("neutralize")
    /\ UNCHANGED <<error, printed, stored_model, model, models, training_data,
                   validation_data, tournament_data, feature_cols, loop_todo,
                   pred_cols, defined, all_feature_corrs, riskiest_features,
                   validation_stats, best_model, tournament_file, other_data,
                   other_corrs>>

\* lines 125-126: the validation statistics of every prediction column
ValidationMetrics ==
    /\ pc = "metrics"
    /\ IF ~(Range(pred_cols) \subseteq Columns(validation_data))
       THEN /\ Crash("KeyError")
            /\ UNCHANGED <<validation_stats, defined>>
       ELSE /\ validation_stats' \in ValidationMetricsResults(validation_data, pred_cols)
            /\ defined' = defined \cup {"validation_stats"}
            /\ pc' = After("metrics")
            /\ UNCHANGED error
    /\ UNCHANGED <<printed, stored_model, model, models, training_data,
                   validation_data, tournament_data, feature_cols, loop_todo,
                   pred_cols, all_feature_corrs, riskiest_features, best_model,
                   tournament_file, other_data, other_corrs>>

\* lines 128-130: pick the model that has the highest correlation mean
SelectBest ==
    /\ pc = "select"
    /\ IF "validation_stats" \notin defined
       THEN /\ Crash("NameError")
            /\ UNCHANGED <<best_model, defined, printed>>
       ELSE IF validation_stats = <<>>
       THEN /\ Crash("IndexError")
            /\ UNCHANGED <<best_model, defined, printed>>
       ELSE /\ best_model' = BestModel(validation_stats)
            /\ defined' = defined \cup {"best_model"}
            /\ printed' = printed \cup {"selecting model " \o best_model'}
            /\ pc' = After("select")
            /\ UNCHANGED error
    /\ UNCHANGED <<stored_model, model, models, training_data, validation_data,
                   tournament_data, feature_cols, loop_todo, pred_cols,
                   all_feature_corrs, riskiest_features, validation_stats,
                   tournament_file, other_data, other_corrs>>

\* lines 132-136: rank the best column from 0 to 1 and write it out
RankPrediction ==
    /\ pc = "rank"
    /\ IF "best_model" \notin defined
       THEN /\ Crash("NameError")
            /\ UNCHANGED <<validation_data, tournament_data>>
       ELSE IF best_model \notin Columns(validation_data) \cap Columns(tournament_data)
       THEN /\ Crash("KeyError")
            /\ UNCHANGED <<validation_data, tournament_data>>
       ELSE /\ validation_data' =
                  SetColumn(validation_data, "prediction", RankPct(validation_data[best_model]))
            /\ tournament_data' =
                  SetColumn(tournament_data, "prediction", RankPct(tournament_data[best_model]))
            /\ pc' = After("rank")
            /\ UNCHANGED error
    /\ UNCHANGED <<printed, stored_model, model, models, training_data,
                   feature_cols, loop_todo, pred_cols, defined,
                   all_feature_corrs, riskiest_features, validation_stats,
                   best_model, tournament_file, other_data, other_corrs>>

(***************************************************************************)
(* The state after the files are read (lines 31-47).                       *)
(***************************************************************************)
EmptyFrame == [c \in {} |-> <<>>]

\* a stored model was fitted on some earlier release of the features
StoredModels ==
    {NoModel} \cup {FittedModel(fs) : fs \in (SUBSET AllFeatureNames) \ {{}}}

\* the feature columns of this week's files
DataFeatureSets == {{"feature_" \o "a"}, AllFeatureNames}

\* the training file: k eras of two rows each
TrainingInput(fs, k) ==
    [c \in {ERA_COL, TARGET_COL} \cup fs |->
        [i \in 1..(2 * k) |->
            IF c = ERA_COL THEN (IF i <= 2 THEN "era1" ELSE "era2")
            ELSE IF c = TARGET_COL THEN 4 * (i % 2)
            ELSE IF c = "feature_" \o "a" THEN 4 * (i % 2)
            ELSE 4 * ((i \div 2) % 2)]]

\* the validation file with the example predictions attached (line 39)
ValidationInput(fs) ==
    [c \in {ERA_COL, TARGET_COL, EXAMPLE_PREDS_COL} \cup fs |->
        [i \in 1..MaxRows |->
            IF c = ERA_COL THEN (IF i = 1 THEN "era1" ELSE "era2")
            ELSE IF c = TARGET_COL THEN 4 * (i % 2)
            ELSE IF c = EXAMPLE_PREDS_COL THEN 0
            ELSE FillValue]]

\* the tournament file: live and test rows alternate; the rows of nanrows
\* (the first live row, the first test row) have no feature values
TournamentInput(fs, nanrows) ==
    [c \in {ERA_COL, "data_type"} \cup fs |->
        [i \in 1..MaxRows |->
            IF c = ERA_COL THEN "eraX"
            ELSE IF c = "data_type" THEN (IF i % 2 = 1 THEN "live" ELSE "test")
            ELSE IF i \in nanrows THEN NaN ELSE 4]]

Init ==
    /\ pc = "load"
    /\ error = ""
    /\ printed = {}
    /\ stored_model \in StoredModels
    /\ model = NoModel
    /\ models = [m \in {} |-> NoModel]
    /\ \E fs \in DataFeatureSets :
          /\ \E k \in 1..2 : training_data = TrainingInput(fs, k)
          /\ validation_data = ValidationInput(fs)
          /\ \E nanrows \in SUBSET {1, 2} :
                tournament_data = TournamentInput(fs, nanrows)
    /\ feature_cols = FeatureCols(training_data)
    /\ loop_todo = <<>>
    /\ pred_cols = <<>>
    /\ defined = {}
    /\ all_feature_corrs = EmptyFrame
    /\ riskiest_features = <<>>
    /\ validation_stats = <<>>
    /\ best_model = ""
    /\ tournament_file = tournament_data
    /\ other_data = EmptyFrame
    /\ other_corrs = EmptyFrame

Next ==
    \/ LoadModel
    \/ TrainModel
    \/ NanCheck
    \/ PredictIteration
    \/ PredictLoopExit
    \/ ComputeCorrs
    \/ RiskiestFeatures
    \/ NeutralizeIteration
    \/ NeutralizeLoopExit
    \/ ValidationMetrics
    \/ SelectBest
    \/ RankPrediction

Spec == Init /\ [][Next]_vars

(***************************************************************************)
(* The correlation matrix on two training files.  The script reaches line  *)
(* 100 with any training file; the second file keeps the rows of one era   *)
(* of the first and differs from it in the rows of other eras.             *)
(***************************************************************************)
\* training frames of n rows with one feature column
CorrFrames(n, eras) ==
    {[c \in {ERA_COL, TARGET_COL, "feature_" \o "a"} |->
        IF c = ERA_COL THEN er ELSE IF c = TARGET_COL THEN tg ELSE fa] :
        er \in [1..n -> eras], tg \in [1..n -> TrainValues], fa \in [1..n -> TrainValues]}

\* pd.concat([f, g]) of two frames with the same columns
ConcatFrames(f, g) == [c \in Columns(f) |-> f[c] \o g[c]]

InitCorr ==
    /\ pc = "corr"
    /\ error = ""
    /\ printed = {"No nans in the features this week!"}
    /\ \E n \in 1..MaxTrainRows : training_data \in CorrFrames(n, EraLabels)
    /\ feature_cols = FeatureCols(training_data)
    /\ stored_model = FittedModel(Range(feature_cols))
    /\ model = stored_model
    /\ models = [m \in {} |-> NoModel]
    /\ validation_data = ValidationInput(Range(feature_cols))
    /\ tournament_data = TournamentInput(Range(feature_cols), {})
    /\ tournament_file = tournament_data
    /\ loop_todo = <<>>
    /\ pred_cols = <<>>
    /\ defined = {}
    /\ all_feature_corrs = EmptyFrame
    /\ riskiest_features = <<>>
    /\ validation_stats = <<>>
    /\ best_model = ""
    /\ other_data = EmptyFrame
    /\ other_corrs = EmptyFrame

\* line 100 on a second training file that agrees with the first on era e
ComputeCorrsOfOtherFile ==
    /\ "all_feature_corrs" \in defined
    /\ Columns(other_data) = {}
    /\ \E e \in Range(training_data[ERA_COL]) :
          \E before, after \in
                {EmptyFrame} \cup CorrFrames(1, (EraLabels \cup {"era3"}) \ {e}) :
             /\ Columns(before) = {} \/ Columns(after) = {}
             /\ LET same == GroupRows(training_data, ERA_COL, e)
                    pre  == IF Columns(before) = {} THEN same ELSE ConcatFrames(before, same)
                IN  other_data' =
                        IF Columns(after) = {} THEN pre ELSE ConcatFrames(pre, after)
    /\ other_corrs' = GroupbyApplyCorr(other_data', FeatureCols(other_data'))
    /\ UNCHANGED <<pc, error, printed, stored_model, model, models,
                   training_data, validation_data, tournament_data,
                   feature_cols, loop_todo, pred_cols, defined,
                   all_feature_corrs, riskiest_features, validation_stats,
                   best_model, tournament_file>>

NextCorr ==
    \/ ComputeCorrs
    \/ ComputeCorrsOfOtherFile

SpecCorr == InitCorr /\ [][NextCorr]_vars

(***************************************************************************)
(* Properties.                                                             *)
(***************************************************************************)
\* the statements that follow line 129 have been reached
SelectionRan == "validation_stats" \in defined /\ pc # "select"

\* the rows of the stats table that hold the maximum mean
TopRows(stats) ==
    {i \in DOMAIN stats : \A j \in DOMAIN stats : stats[i].mean >= stats[j].mean}

\* C1: model selection always returns a column name present in the validation
\* stats table whose mean is >= the mean of every other row, for every stats
\* table the pipeline hands to the selection step.
C1_SelectionReturnsMaxRow ==
    SelectionRan =>
        \E i \in TopRows(validation_stats) : validation_stats[i].name = best_model

\* the prediction column names in string order
ColumnNamesSorted == <<"preds_model_target", "preds_model_target_neutral_riskiest_50">>

NameIndex(name) == CHOOSE i \in DOMAIN ColumnNamesSorted : ColumnNamesSorted[i] = name

\* C2 (as claimed): when several prediction columns share the maximum mean,
\* the selected column is the one that comes first in column-name order,
\* whatever the order of the rows of the stats table.
C2_TieBrokenByColumnName ==
    "best_model" \in defined =>
        /\ best_model \in Range(ColumnNamesSorted)
        /\ \A i \in TopRows(validation_stats) :
              NameIndex(best_model) <= NameIndex(validation_stats[i].name)

\* C2 (amended): when several prediction columns share the maximum mean, the
\* selected column is the one whose row comes first in the stats table: the
\* selection is a function of the table and the order of its rows, and the
\* column names play no part in it.
C2_TieBrokenByTablePosition ==
    "best_model" \in defined =>
        \E i \in TopRows(validation_stats) :
            /\ validation_stats[i].name = best_model
            /\ \A j \in TopRows(validation_stats) : i <= j

\* a tie at the maximum, in a table whose first row is the column that comes
\* last in column-name order
C2_Witness ==
    /\ "best_model" \in defined
    /\ Cardinality(TopRows(validation_stats)) >= 2
    /\ validation_stats[1].name = ColumnNamesSorted[Len(ColumnNamesSorted)]
    /\ best_model = validation_stats[1].name

\* comparison of two ranks kept as <<numerator, denominator>>
RankLess(r, q) == r[1] * q[2] < q[1] * r[2]

RankWithinZeroOne(r) == 0 <= r[1] /\ r[1] <= r[2]

\* C3 (as claimed): the final prediction of both frames is the percentile rank
\* of the selected column: every value between 0 and 1, the order of the
\* selected column preserved, and tied values ranked by row position so that
\* no two rows receive the same rank.
C3_TiesRankedByPosition ==
    pc = "done" =>
        \A df \in {validation_data, tournament_data} :
            LET v == df[best_model]
                r == df["prediction"]
            IN  /\ DOMAIN r = DOMAIN v
                /\ \A i \in DOMAIN v : RankWithinZeroOne(r[i])
                /\ \A i, j \in DOMAIN v : v[i] < v[j] => RankLess(r[i], r[j])
                /\ \A i, j \in DOMAIN v : i < j /\ v[i] = v[j] => RankLess(r[i], r[j])

\* C3 (amended): the final prediction of both frames is the percentile rank of
\* the selected column: every value greater than 0 and at most 1, the order of
\* the selected column preserved, and tied values given one and the same rank,
\* the mean of the positions they span (so the ranks of n rows add up to
\* n(n+1)/2 before the division by n).
C3_TiesShareAverageRank ==
    pc = "done" =>
        \A df \in {validation_data, tournament_data} :
            LET v == df[best_model]
                r == df["prediction"]
                n == Len(v)
            IN  /\ DOMAIN r = DOMAIN v
                /\ \A i \in DOMAIN v : 0 < r[i][1] /\ RankWithinZeroOne(r[i])
                /\ \A i, j \in DOMAIN v : v[i] < v[j] => RankLess(r[i], r[j])
                /\ \A i, j \in DOMAIN v : v[i] = v[j] => r[i] = r[j]
                /\ \A i \in DOMAIN v : r[i][2] = 2 * n
                /\ SeqSum([i \in DOMAIN v |-> r[i][1]]) = n * (n + 1)

C3_Witness ==
    /\ pc = "done"
    /\ \A df \in {validation_data, tournament_data} :
          \E i, j \in DOMAIN df[best_model] :
             i # j /\ df[best_model][i] = df[best_model][j]

\* C5: neutralization never mutates its source: each iteration attaches the
\* result to both frames as a new column preds_<model>_neutral_riskiest_50
\* with one value per row, and every column that was there before, the source
\* preds_<model> among them, keeps its values.
C5_NeutralizeAddsNewColumn ==
    [][(pc = "neutralize" /\ loop_todo # <<>> /\ pc' # "crashed") =>
        LET source == "preds_" \o Head(loop_todo)
            new    == "preds_" \o Head(loop_todo) \o "_neutral_riskiest_50"
        IN  /\ new # source
            /\ source \in Columns(validation_data) \cap Columns(tournament_data)
            /\ new \notin Columns(validation_data) \cup Columns(tournament_data)
            /\ Columns(validation_data') = Columns(validation_data) \cup {new}
            /\ Columns(tournament_data') = Columns(tournament_data) \cup {new}
            /\ \A c \in Columns(validation_data) : validation_data'[c] = validation_data[c]
            /\ \A c \in Columns(tournament_data) : tournament_data'[c] = tournament_data[c]
            /\ Len(validation_data'[new]) = NRows(validation_data)
            /\ Len(tournament_data'[new]) = NRows(tournament_data)]_vars

C5_Witness ==
    /\ pc = "neutralize"
    /\ loop_todo = <<>>
    /\ "preds_model_target_neutral_riskiest_50"
          \in Columns(validation_data) \cap Columns(tournament_data)

\* the rows of a frame, as records
Rows(df) == [i \in 1..NRows(df) |-> [c \in Columns(df) |-> df[c][i]]]

\* the rows of era e, in row order
RowsOfEra(df, e) == SelectSeq(Rows(df), LAMBDA row : row[ERA_COL] = e)

\* C6: the correlation matrix has exactly one row per distinct era label of the
\* training data, and its row for era e depends only on the rows of era e:
\* two training files that agree on the rows of era e give the same row for e.
C6_NoCrossEraLeakage ==
    /\ "all_feature_corrs" \in defined =>
          DOMAIN all_feature_corrs = Range(training_data[ERA_COL])
    /\ ("all_feature_corrs" \in defined /\ Columns(other_data) # {}) =>
          /\ DOMAIN other_corrs = Range(other_data[ERA_COL])
          /\ \A e \in DOMAIN all_feature_corrs :
                RowsOfEra(training_data, e) = RowsOfEra(other_data, e) =>
                    /\ e \in DOMAIN other_corrs
                    /\ other_corrs[e] = all_feature_corrs[e]

C6_Witness ==
    /\ "all_feature_corrs" \in defined
    /\ Columns(other_data) # {}
    /\ \E e \in DOMAIN all_feature_corrs :
          /\ RowsOfEra(training_data, e) = RowsOfEra(other_data, e)
          /\ all_feature_corrs[e]["feature_a"] # NanCorr
          /\ \E x \in DOMAIN all_feature_corrs : x # e
          /\ \E x \in DOMAIN other_corrs :
                x # e /\ RowsOfEra(training_data, x) # RowsOfEra(other_data, x)

NeutralColumnsOf(df) == {c \in Columns(df) : \E m \in {model_name} : c = NeutralColName(m)}

\* C7: the stages run in data-flow order: the risky feature list is computed,
\* from the training features, before any neutralization starts; every
\* neutralized column of every model is attached before the metrics table is
\* computed; selection and the final ranking come after the metrics table.
C7_StagesInDataFlowOrder ==
    /\ pc \in {"risk", "neutralize", "metrics", "select", "rank", "done"} =>
          "all_feature_corrs" \in defined
    /\ pc \in {"neutralize", "metrics", "select", "rank", "done"} =>
          /\ "riskiest_features" \in defined
          /\ Range(riskiest_features) \subseteq Range(FeatureCols(training_data))
    /\ (NeutralColumnsOf(validation_data) \cup NeutralColumnsOf(tournament_data)) # {} =>
          "riskiest_features" \in defined
    /\ (pc \in {"metrics", "select", "rank", "done"} \/ "validation_stats" \in defined) =>
          \A m \in DOMAIN models :
             {PredColName(m), NeutralColName(m)}
                \subseteq Columns(validation_data) \cap Columns(tournament_data)
    /\ pc \in {"select", "rank", "done"} =>
          /\ "validation_stats" \in defined
          /\ Len(validation_stats) = Len(pred_cols)
          /\ \A c \in Range(pred_cols) :
                Cardinality({i \in DOMAIN validation_stats :
                                validation_stats[i].name = c})
                   = Cardinality({i \in DOMAIN pred_cols : pred_cols[i] = c})
    /\ ("best_model" \in defined \/ pc \in {"rank", "done"}) =>
          "validation_stats" \in defined /\ "best_model" \in defined
    /\ \A df \in {validation_data, tournament_data} :
          "prediction" \in Columns(df) => "best_model" \in defined
    /\ pc = "done" =>
          "prediction" \in Columns(validation_data) \cap Columns(tournament_data)

C7_Witness ==
    /\ pc = "done"
    /\ "prediction" \in Columns(tournament_data)
    /\ Len(riskiest_features) = 2

FeatureNanCount(df, cols) ==
    Cardinality({<<c, i>> \in Range(cols) \X (1..NRows(df)) : IsNa(df[c][i])})

\* C8: if a feature value of a live tournament row is NaN, then after the NaN
\* check every NaN of the tournament feature columns has been replaced by 0.5;
\* if none is, tournament_data is left as it was read.
C8_NansFilled ==
    pc \notin {"load", "train", "nancheck"} =>
        IF LiveNanCount(tournament_file, feature_cols) # 0
        THEN /\ FeatureNanCount(tournament_data, feature_cols) = 0
             /\ \A c \in Range(feature_cols) :
                   tournament_data[c] = Fillna(tournament_file[c], FillValue)
        ELSE \A c \in Columns(tournament_file) : tournament_data[c] = tournament_file[c]

\* C9: whether the model was loaded or newly trained, it is registered in the
\* models dict before the prediction loop, so pred_cols is not empty when the
\* validation metrics are computed and selection never sees an empty table.
C9_ModelRegistered ==
    /\ pc \notin {"load", "train"} => model_name \in DOMAIN models
    /\ pc = "metrics" => pred_cols # <<>>
    /\ pc = "select" => validation_stats # <<>>

\* C10: when the metrics are computed and the best column is selected,
\* pred_cols holds exactly the raw and the neutralized column of every
\* registered model, without duplicates, every name in it is a column of both
\* frames, and the selected column is a column of tournament_data when the
\* tournament prediction is ranked.
C10_PredColsComplete ==
    /\ pc \in {"metrics", "select", "rank"} =>
          /\ Len(pred_cols) = 2 * Cardinality(DOMAIN models)
          /\ Range(pred_cols) =
                UNION {{"preds_" \o m, "preds_" \o m \o "_neutral_riskiest_50"} :
                          m \in DOMAIN models}
          /\ \A i, j \in DOMAIN pred_cols : pred_cols[i] = pred_cols[j] => i = j
          /\ Range(pred_cols) \subseteq Columns(validation_data) \cap Columns(tournament_data)
    /\ pc = "rank" =>
          /\ best_model \in Range(pred_cols)
          /\ best_model \in Columns(tournament_data)

C10_Witness ==
    /\ pc = "rank"
    /\ Len(pred_cols) = 2
    /\ best_model = "preds_model_target_neutral_riskiest_50"

====
